---- MODULE Spec2Model ----
(***************************************************************************)
(* Model of the FlareSolverr client of client.go: the constructor New, the *)
(* five operations CreateSession, ListSessions, DestroySession, Get and    *)
(* Post, the shared dispatch routine do, and the helpers handleError and   *)
(* handleSession.                                                          *)
(*                                                                         *)
(* Representation.  Text that the code inspects (Response.Message, the     *)
(* session string) is a sequence of code points; text that the code only  *)
(* passes along (URLs, proxy, post data) is a TLA+ string.  A              *)
(* time.Duration counts microseconds here (nanoseconds in Go), so that 60  *)
(* s and the 10 s margin stay small integers while sub-millisecond         *)
(* durations still exist.  A context is described by the time left to its  *)
(* deadline at the moment do derives its own context.                      *)
(***************************************************************************)
EXTENDS Integers, Sequences, FiniteSets, TLC

\* ------------------------------------------------------------------ bounds

\* Number of goroutines that call the client at the same time.
NumCallers == 2

\* ------------------------------------------------------------- time units

\* time.Millisecond, time.Second
Millisecond == 1000
Second == 1000 * Millisecond

\* Go's integer division truncates toward zero; TLA+'s \div rounds down.
TruncDiv(a, b) == IF a >= 0 THEN a \div b ELSE -((-a) \div b)

\* time.Duration.Milliseconds(), then int(...)
MillisecondsFloor(d) == d \div Millisecond
Milliseconds(d) == TruncDiv(d, Millisecond)

\* client.go:41, the default timeout
DefaultTimeout == Millisecond * 60000

\* client.go:194, the margin added to the timeout
Margin == 10 * Second

StatusOK == 200

\* ----------------------------------------------------------------- errors

\* An error value: id names the value itself, wraps the error a %w verb
\* wraps ("" when none), prefix the text before the wrapped error, and
\* detail the text a %s verb appended.
NoError == [id |-> "nil", wraps |-> "", prefix |-> "", detail |-> <<>>]

EmptyString == <<>>

\* "maximum timeout reached"
MaximumTimeoutReached ==
  <<109, 97, 120, 105, 109, 117, 109, 32, 116, 105, 109, 101, 111, 117, 116,
    32, 114, 101, 97, 99, 104, 101, 100>>

ErrRequestTimeout ==
  [id |-> "ErrRequestTimeout", wraps |-> "", prefix |-> "maximum timeout reached",
   detail |-> <<>>]

ErrUnexpectedError ==
  [id |-> "ErrUnexpectedError", wraps |-> "",
   prefix |-> "unexpected error from FlareSolverr server", detail |-> <<>>]

\* fmt.Errorf(prefix + ": %w", cause)
Wrap(prefix, cause) ==
  [id |-> "wrapError", wraps |-> cause, prefix |-> prefix, detail |-> <<>>]

\* errors.Is(err, target)
ErrorsIs(err, target) == err.id = target.id \/ err.wraps = target.id

\* ---------------------------------------------------------------- strings

\* unicode.ToLower on the code points of ASCII and Latin-1
ToLowerRune(r) ==
  IF r \in 65..90 THEN r + 32
  ELSE IF r \in 192..222 /\ r # 215 THEN r + 32
  ELSE r

\* strings.ToLower
ToLower(s) == [i \in 1..Len(s) |-> ToLowerRune(s[i])]

\* strings.Contains
Contains(s, substr) ==
  \E i \in 0..(Len(s) - Len(substr)) :
    \A j \in 1..Len(substr) : s[i + j] = substr[j]

\* handleError without the lowering of the message
handleErrorCaseSensitive(resp) ==
  IF Contains(resp.message, MaximumTimeoutReached)
  THEN ErrRequestTimeout
  ELSE [id |-> "wrapError", wraps |-> ErrUnexpectedError.id, prefix |-> "",
        detail |-> resp.message]

handleError(resp) ==
  LET message == ToLower(resp.message) IN
  IF Contains(message, MaximumTimeoutReached)
  THEN ErrRequestTimeout
  ELSE [id |-> "wrapError", wraps |-> ErrUnexpectedError.id, prefix |-> "",
        detail |-> resp.message]

\* ------------------------------------------------------------ identifiers

\* uuid.Nil: 16 zero bytes
UUIDNil == [i \in 1..16 |-> 0]

\* one lowercase hexadecimal digit
HexDigit(n) == IF n < 10 THEN 48 + n ELSE 87 + n

HexByte(b) == <<HexDigit(b \div 16), HexDigit(b % 16)>>

RECURSIVE HexBytes(_, _, _)
HexBytes(u, from, to) ==
  IF from > to THEN <<>> ELSE HexByte(u[from]) \o HexBytes(u, from + 1, to)

Hyphen == <<45>>

\* uuid.UUID.String: xxxxxxxx-xxxx-xxxx-xxxx-xxxxxxxxxxxx
UUIDString(u) ==
  HexBytes(u, 1, 4) \o Hyphen \o HexBytes(u, 5, 6) \o Hyphen \o
  HexBytes(u, 7, 8) \o Hyphen \o HexBytes(u, 9, 10) \o Hyphen \o
  HexBytes(u, 11, 16)

\* handleSession without the test for uuid.Nil
handleSessionNoNilCheck(session) == UUIDString(session)

handleSession(session) ==
  IF session = UUIDNil THEN EmptyString ELSE UUIDString(session)

\* ----------------------------------------------------------------- client

\* New without the default for a zero timeout
NewNoDefault(baseURL, timeout, httpClient) ==
  [baseURL |-> baseURL,
   httpClient |-> IF httpClient = "nil" THEN "http.DefaultClient" ELSE httpClient,
   timeout |-> timeout]

New(baseURL, timeout, httpClient) ==
  [baseURL |-> baseURL,
   httpClient |-> IF httpClient = "nil" THEN "http.DefaultClient" ELSE httpClient,
   timeout |-> IF timeout = 0 THEN DefaultTimeout ELSE timeout]

\* --------------------------------------------------------------- commands

CommandSessionscreate == "sessions.create"
CommandSessionslist == "sessions.list"
CommandSessionsdestroy == "sessions.destroy"
CommandRequestget == "request.get"
CommandRequestpost == "request.post"

\* the zero value of flaresolverrCommand
flaresolverrCommand ==
  [Cmd |-> "", URL |-> "", Session |-> EmptyString, MaxTimeout |-> 0,
   Cookies |-> <<>>, ReturnOnlyCookies |-> FALSE, Proxy |-> "", PostData |-> ""]

\* if len(proxy) > 0 { cmd.Proxy = proxy[0] }
WithProxy(cmd, proxy) ==
  IF Len(proxy) > 0 THEN [cmd EXCEPT !.Proxy = proxy[1]] ELSE cmd

CreateSessionCommand(session, proxy) ==
  WithProxy([flaresolverrCommand EXCEPT !.Cmd = CommandSessionscreate,
                                        !.Session = handleSession(session)], proxy)

ListSessionsCommand == [flaresolverrCommand EXCEPT !.Cmd = CommandSessionslist]

DestroySessionCommand(session) ==
  [flaresolverrCommand EXCEPT !.Cmd = CommandSessionsdestroy,
                              !.Session = handleSession(session)]

GetCommand(u, session, proxy) ==
  WithProxy([flaresolverrCommand EXCEPT !.Cmd = CommandRequestget, !.URL = u,
                                        !.Session = handleSession(session)], proxy)

PostCommand(u, session, data, proxy) ==
  WithProxy([flaresolverrCommand EXCEPT !.Cmd = CommandRequestpost, !.URL = u,
                                        !.Session = handleSession(session),
                                        !.PostData = data], proxy)

\* cmd.MaxTimeout = int(c.timeout.Milliseconds())
SetMaxTimeout(c, cmd) == [cmd EXCEPT !.MaxTimeout = Milliseconds(c.timeout)]

\* The fields of the JSON object the encoder writes: the omitempty fields
\* appear only when they are not the zero value.
WireFields(cmd) ==
  {"cmd", "url", "maxTimeout"}
    \cup (IF cmd.Session # EmptyString THEN {"session"} ELSE {})
    \cup (IF cmd.Cookies # <<>> THEN {"cookies"} ELSE {})
    \cup (IF cmd.ReturnOnlyCookies THEN {"returnOnlyCookies"} ELSE {})
    \cup (IF cmd.Proxy # "" THEN {"proxy"} ELSE {})
    \cup (IF cmd.PostData # "" THEN {"postData"} ELSE {})

\* json.NewEncoder(payload).Encode(cmd): the JSON object, by field name
Encode(cmd) ==
  [f \in WireFields(cmd) |->
     CASE f = "cmd" -> cmd.Cmd
       [] f = "url" -> cmd.URL
       [] f = "session" -> cmd.Session
       [] f = "maxTimeout" -> cmd.MaxTimeout
       [] f = "cookies" -> cmd.Cookies
       [] f = "returnOnlyCookies" -> cmd.ReturnOnlyCookies
       [] f = "proxy" -> cmd.Proxy
       [] f = "postData" -> cmd.PostData]

\* The encoder fails only on a value JSON cannot hold, and the only field
\* that could hold one is Cookies ([]any).
EncodeFails(cmd) == \E i \in 1..Len(cmd.Cookies) : cmd.Cookies[i] = "unsupported"

\* -------------------------------------------------------------- responses

\* the nil *Response
NilResponse == [nil |-> TRUE, status |-> "", message |-> EmptyString]

\* json.NewDecoder(resp.Body).Decode(&response): a body that is a JSON
\* object fills the fields it names and leaves the others zero.
Decode(body) ==
  IF ~body.json
  THEN [ok |-> FALSE, response |-> NilResponse]
  ELSE [ok |-> TRUE,
        response |->
          [nil |-> FALSE,
           status |-> IF "status" \in DOMAIN body.fields
                      THEN body.fields.status ELSE "",
           message |-> IF "message" \in DOMAIN body.fields
                       THEN body.fields.message ELSE EmptyString]]

\* ------------------------------------------------------- do's return values

RetInvalidCommand == [resp |-> NilResponse, err |-> Wrap("invalid command", "json.UnsupportedTypeError")]

RetCannotMakeRequest == [resp |-> NilResponse, err |-> Wrap("cannot make request", "url.Error")]

RetTransport(cause) ==
  [resp |-> NilResponse, err |-> Wrap("error making request to flaresolverr", cause)]

RetDecode(cause) ==
  [resp |-> NilResponse, err |-> Wrap("cannot read flaresolverr response", cause)]

\* lines 214-218 with the error returned beside the decoded response
RetReplyBoth(code, response) ==
  IF code # StatusOK
  THEN [resp |-> response, err |-> handleError(response)]
  ELSE [resp |-> response, err |-> NoError]

\* lines 214-218 deciding on the body's status field instead of the HTTP status
RetReplyByBodyStatus(code, response) ==
  IF response.status # "ok"
  THEN [resp |-> NilResponse, err |-> handleError(response)]
  ELSE [resp |-> response, err |-> NoError]

RetReply(code, response) ==
  IF code # StatusOK
  THEN [resp |-> NilResponse, err |-> handleError(response)]
  ELSE [resp |-> response, err |-> NoError]

\* DestroySession hands back only the error of do.
CallResult(op, r) ==
  IF op = CommandSessionsdestroy THEN [resp |-> NilResponse, err |-> r.err] ELSE r

\* --------------------------------------------------------------- contexts

\* A context: id tells the caller's context from context.Background();
\* remaining is the time to its deadline when do derives its own context.
Background ==
  [id |-> "background", hasDeadline |-> FALSE, remaining |-> 0, err |-> "",
   canCancel |-> FALSE]

CallerContext(hasDeadline, remaining, err) ==
  [id |-> "caller", hasDeadline |-> hasDeadline, remaining |-> remaining,
   err |-> err, canCancel |-> TRUE]

\* the zero value of the derived context, before do creates it
NoContext ==
  [parent |-> "", remaining |-> 0, own |-> FALSE, err |-> ""]

\* the timeout do gives context.WithTimeout, without the margin
RequestTimeoutNoMargin(c) == c.timeout

\* c.timeout + 10*time.Second
RequestTimeout(c) == c.timeout + Margin

\* context.WithTimeout(parent, d): the earlier of the parent's deadline and
\* now + d; cancelled at once when the parent is done or the deadline has
\* passed.  own tells whether the deadline is the derived context's own.
WithTimeout(parent, d) ==
  LET earlier == parent.hasDeadline /\ parent.remaining < d
      remaining == IF earlier THEN parent.remaining ELSE d
  IN [parent |-> parent.id,
      remaining |-> remaining,
      own |-> ~earlier,
      err |-> IF parent.err # "" THEN parent.err
              ELSE IF ~earlier /\ d <= 0 THEN "context.DeadlineExceeded"
              ELSE ""]

\* do deriving its context from context.Background() instead of ctx
DoParentBackground(ctx) == Background

\* the parent of the context do derives: the caller's ctx
DoParent(ctx) == ctx

\* url.Parse inside http.NewRequestWithContext
URLParses(u) == u # "://127.0.0.1:8191/v1"

\* the transport accepts http and https URLs only
URLSchemeSupported(u) == u # "foo.bar"

\* ------------------------------------------------------------------ inputs

\* 47d0a203-a007-4a01-b8c1-0cf0156c3cc7, the identifier of Test_handleSession
TestUUID ==
  <<71, 208, 162, 3, 160, 7, 74, 1, 184, 193, 12, 240, 21, 108, 60, 199>>

\* identifiers: nil, the test's, all ones, and two with one non-zero byte
Sessions ==
  {UUIDNil, TestUUID, [i \in 1..16 |-> 255],
   [i \in 1..16 |-> IF i = 16 THEN 1 ELSE 0],
   [i \in 1..16 |-> IF i = 1 THEN 171 ELSE 0]}

\* "Error: Maximum timeout reached. maxTimeout=60000 (ms)"
MsgTimeoutMixedCase ==
  <<69, 114, 114, 111, 114, 58, 32, 77, 97, 120, 105, 109, 117, 109, 32, 116,
    105, 109, 101, 111, 117, 116, 32, 114, 101, 97, 99, 104, 101, 100, 46, 32,
    109, 97, 120, 84, 105, 109, 101, 111, 117, 116, 61, 54, 48, 48, 48, 48, 32,
    40, 109, 115, 41>>

\* "MAXIMUM TIMEOUT REACHED"
MsgTimeoutUpperCase ==
  <<77, 65, 88, 73, 77, 85, 77, 32, 84, 73, 77, 69, 79, 85, 84, 32, 82, 69, 65,
    67, 72, 69, 68>>

\* "Oops, something went wrong!"
MsgOops ==
  <<79, 111, 112, 115, 44, 32, 115, 111, 109, 101, 116, 104, 105, 110, 103, 32,
    119, 101, 110, 116, 32, 119, 114, 111, 110, 103, 33>>

\* "Maximum Timeout"
MsgTimeoutCut ==
  <<77, 97, 120, 105, 109, 117, 109, 32, 84, 105, 109, 101, 111, 117, 116>>

\* "maximum  timeout reached", with two spaces
MsgTimeoutTwoSpaces ==
  <<109, 97, 120, 105, 109, 117, 109, 32, 32, 116, 105, 109, 101, 111, 117,
    116, 32, 114, 101, 97, 99, 104, 101, 100>>

\* "Challenge not detected!"
MsgChallenge ==
  <<67, 104, 97, 108, 108, 101, 110, 103, 101, 32, 110, 111, 116, 32, 100, 101,
    116, 101, 99, 116, 101, 100, 33>>

Messages ==
  {MaximumTimeoutReached, MsgTimeoutMixedCase, MsgTimeoutUpperCase, MsgOops,
   MsgTimeoutCut, MsgTimeoutTwoSpaces, MsgChallenge, EmptyString}

\* reply bodies: JSON objects with status and message, with a message only,
\* the empty object, and a body that is no JSON (an HTML error page)
JSONBody(fields) == [json |-> TRUE, fields |-> fields]

NotJSONBody == [json |-> FALSE, fields |-> [message |-> EmptyString]]

Bodies ==
  {JSONBody([status |-> st, message |-> m]) : st \in {"ok", "error"}, m \in Messages}
    \cup {JSONBody([message |-> m]) : m \in {MsgOops, MsgTimeoutUpperCase}}
    \cup {NotJSONBody}

StatusCodes == {StatusOK, 500}

Timeouts ==
  {0, 100, 1500, 30 * Second, DefaultTimeout, -1500, -12 * Second}

BaseURLs == {"http://127.0.0.1:8191/v1", "foo.bar", "://127.0.0.1:8191/v1"}

HTTPClients == {"nil", "custom"}

Contexts ==
  {Background,
   CallerContext(FALSE, 0, ""),
   CallerContext(TRUE, 5 * Second, ""),
   CallerContext(TRUE, 100 * Second, ""),
   CallerContext(FALSE, 0, "context.Canceled")}

\* what the callers of the sequential specification pass
Inputs ==
  [sessions |-> Sessions,
   urls |-> {"https://httpbin.org/anything"},
   datas |-> {"", "foo=bar"},
   proxies |-> {<<>>, <<"http://proxy:3128">>, <<"">>},
   ctxs |-> Contexts,
   codes |-> StatusCodes,
   bodies |-> Bodies]

\* what the callers of the concurrent specification pass
SmallInputs ==
  [sessions |-> {UUIDNil, TestUUID},
   urls |-> {"https://httpbin.org/anything"},
   datas |-> {"foo=bar"},
   proxies |-> {<<>>},
   ctxs |-> {Background},
   codes |-> StatusCodes,
   bodies |-> {JSONBody([status |-> "ok", message |-> MsgChallenge])}]

\* ------------------------------------------------------------------- state

VARIABLES
  newArgs,    \* the arguments New was called with
  c,          \* the client New returned
  pc,         \* pc[p]: where caller p is in its call
  call,       \* call[p]: the operation and arguments of p's call
  cmds,       \* the heap of flaresolverrCommand values, by address
  payload,    \* payload[p]: the encoded command (none, or one)
  pctx,       \* pctx[p]: the context the caller passed
  dctx,       \* dctx[p]: the context do derived
  sent,       \* sent[p]: the requests p's call handed to httpClient.Do
  reply,      \* reply[p]: the reply as far as the call has read it
  ret         \* ret[p]: what do returned

vars == <<newArgs, c, pc, call, cmds, payload, pctx, dctx, sent, reply, ret>>

Callers == 1..NumCallers

NoCall ==
  [op |-> "", session |-> UUIDNil, u |-> "", data |-> "", proxy |-> <<>>]

NoReturn == [resp |-> NilResponse, err |-> NoError]

NoReply == [got |-> "nothing", code |-> 0, body |-> NotJSONBody]

\* the address of the command a call allocates, when all calls share one
CmdAddrShared(p) == 1

\* cmd := &flaresolverrCommand{...}: every call allocates its own command
CmdAddr(p) == p

InitWith(timeouts, baseURLs, httpClients) ==
  /\ newArgs \in [baseURL : baseURLs, timeout : timeouts, httpClient : httpClients]
  /\ c = New(newArgs.baseURL, newArgs.timeout, newArgs.httpClient)
  /\ pc = [p \in Callers |-> "idle"]
  /\ call = [p \in Callers |-> NoCall]
  /\ cmds = [a \in Callers |-> flaresolverrCommand]
  /\ payload = [p \in Callers |-> <<>>]
  /\ pctx = [p \in Callers |-> Background]
  /\ dctx = [p \in Callers |-> NoContext]
  /\ sent = [p \in Callers |-> <<>>]
  /\ reply = [p \in Callers |-> NoReply]
  /\ ret = [p \in Callers |-> NoReturn]

Init == InitWith(Timeouts, BaseURLs, HTTPClients)

\* ------------------------------------------------------------- operations

\* what every operation does to the state: cmd := &flaresolverrCommand{...}
\* stores the command at the call's own address, then do is entered
Entered(p, in, ctx, cmd) ==
  [call |-> [call EXCEPT ![p] = in],
   cmds |-> [cmds EXCEPT ![CmdAddr(p)] = cmd],
   pctx |-> [pctx EXCEPT ![p] = ctx],
   pc |-> [pc EXCEPT ![p] = "do"]]

CreateSession(p, I) ==
  /\ pc[p] = "idle"
  /\ \E ctx \in I.ctxs, session \in I.sessions, proxy \in I.proxies :
       LET e == Entered(p, [NoCall EXCEPT !.op = CommandSessionscreate,
                                          !.session = session, !.proxy = proxy],
                        ctx, CreateSessionCommand(session, proxy))
       IN call' = e.call /\ cmds' = e.cmds /\ pctx' = e.pctx /\ pc' = e.pc
  /\ UNCHANGED <<newArgs, c, payload, dctx, sent, reply, ret>>

ListSessions(p, I) ==
  /\ pc[p] = "idle"
  /\ \E ctx \in I.ctxs :
       LET e == Entered(p, [NoCall EXCEPT !.op = CommandSessionslist], ctx,
                        ListSessionsCommand)
       IN call' = e.call /\ cmds' = e.cmds /\ pctx' = e.pctx /\ pc' = e.pc
  /\ UNCHANGED <<newArgs, c, payload, dctx, sent, reply, ret>>

DestroySession(p, I) ==
  /\ pc[p] = "idle"
  /\ \E ctx \in I.ctxs, session \in I.sessions :
       LET e == Entered(p, [NoCall EXCEPT !.op = CommandSessionsdestroy,
                                          !.session = session],
                        ctx, DestroySessionCommand(session))
       IN call' = e.call /\ cmds' = e.cmds /\ pctx' = e.pctx /\ pc' = e.pc
  /\ UNCHANGED <<newArgs, c, payload, dctx, sent, reply, ret>>

Get(p, I) ==
  /\ pc[p] = "idle"
  /\ \E ctx \in I.ctxs, u \in I.urls, session \in I.sessions, proxy \in I.proxies :
       LET e == Entered(p, [NoCall EXCEPT !.op = CommandRequestget, !.u = u,
                                          !.session = session, !.proxy = proxy],
                        ctx, GetCommand(u, session, proxy))
       IN call' = e.call /\ cmds' = e.cmds /\ pctx' = e.pctx /\ pc' = e.pc
  /\ UNCHANGED <<newArgs, c, payload, dctx, sent, reply, ret>>

Post(p, I) ==
  /\ pc[p] = "idle"
  /\ \E ctx \in I.ctxs, u \in I.urls, session \in I.sessions, data \in I.datas,
        proxy \in I.proxies :
       LET e == Entered(p, [NoCall EXCEPT !.op = CommandRequestpost, !.u = u,
                                          !.session = session, !.data = data,
                                          !.proxy = proxy],
                        ctx, PostCommand(u, session, data, proxy))
       IN call' = e.call /\ cmds' = e.cmds /\ pctx' = e.pctx /\ pc' = e.pc
  /\ UNCHANGED <<newArgs, c, payload, dctx, sent, reply, ret>>

\* ---------------------------------------------------------------------- do

\* do returns r
Finish(p, r) ==
  /\ ret' = [ret EXCEPT ![p] = r]
  /\ pc' = [pc EXCEPT ![p] = "done"]

\* lines 186-191: set MaxTimeout, encode the command
DoEncode(p) ==
  /\ pc[p] = "do"
  /\ LET cmd == SetMaxTimeout(c, cmds[CmdAddr(p)]) IN
       /\ cmds' = [cmds EXCEPT ![CmdAddr(p)] = cmd]
       /\ IF EncodeFails(cmd)
          THEN /\ Finish(p, RetInvalidCommand)
               /\ UNCHANGED payload
          ELSE /\ payload' = [payload EXCEPT ![p] = <<Encode(cmd)>>]
               /\ pc' = [pc EXCEPT ![p] = "encoded"]
               /\ UNCHANGED ret
  /\ UNCHANGED <<newArgs, c, call, pctx, dctx, sent, reply>>

\* the request http.NewRequestWithContext builds and do completes
Request(cl, body) ==
  [method |-> "POST", url |-> cl.baseURL, contentType |-> "application/json",
   body |-> body, client |-> cl.httpClient]

\* lines 194-203: derive the context, build the request, hand it to the
\* HTTP client, which refuses a URL without an http or https scheme at once
DoRequest(p) ==
  /\ pc[p] = "encoded"
  /\ dctx' = [dctx EXCEPT ![p] = WithTimeout(DoParent(pctx[p]), RequestTimeout(c))]
  /\ IF ~URLParses(c.baseURL)
     THEN /\ Finish(p, RetCannotMakeRequest)
          /\ UNCHANGED sent
     ELSE /\ sent' = [sent EXCEPT ![p] = Append(@, Request(c, payload[p][1]))]
          /\ IF ~URLSchemeSupported(c.baseURL)
             THEN Finish(p, RetTransport("unsupported protocol scheme"))
             ELSE /\ pc' = [pc EXCEPT ![p] = "roundtrip"]
                  /\ UNCHANGED ret
  /\ UNCHANGED <<newArgs, c, call, cmds, payload, pctx, reply>>

\* line 203 followed by a second attempt instead of the return of the error
TransportFailRetry(p) ==
  /\ pc[p] = "roundtrip"
  /\ dctx[p].err = ""
  /\ pc' = [pc EXCEPT ![p] = "encoded"]
  /\ UNCHANGED <<newArgs, c, call, cmds, payload, pctx, dctx, sent, reply, ret>>

\* line 203: the exchange fails (connection refused, reset, ...)
TransportFail(p) ==
  /\ pc[p] = "roundtrip"
  /\ dctx[p].err = ""
  /\ Finish(p, RetTransport("net.OpError"))
  /\ UNCHANGED <<newArgs, c, call, cmds, payload, pctx, dctx, sent, reply>>

\* line 203: the context is done, httpClient.Do gives up with its error
RoundTripAbort(p) ==
  /\ pc[p] = "roundtrip"
  /\ dctx[p].err # ""
  /\ Finish(p, RetTransport(dctx[p].err))
  /\ UNCHANGED <<newArgs, c, call, cmds, payload, pctx, dctx, sent, reply>>

\* line 203: httpClient.Do returns the reply's status line and headers
ReceiveHeaders(p, I) ==
  /\ pc[p] = "roundtrip"
  /\ dctx[p].err = ""
  /\ \E code \in I.codes :
       reply' = [reply EXCEPT ![p] = [@ EXCEPT !.got = "headers", !.code = code]]
  /\ pc' = [pc EXCEPT ![p] = "decode"]
  /\ UNCHANGED <<newArgs, c, call, cmds, payload, pctx, dctx, sent, ret>>

\* lines 209-218: read and decode the body, then decide on the HTTP status
DecodeBody(p, I) ==
  /\ pc[p] = "decode"
  /\ dctx[p].err = ""
  /\ \E body \in I.bodies :
       /\ reply' = [reply EXCEPT ![p] = [@ EXCEPT !.got = "body", !.body = body]]
       /\ LET d == Decode(body) IN
            IF ~d.ok
            THEN Finish(p, RetDecode("json.SyntaxError"))
            ELSE Finish(p, RetReply(reply[p].code, d.response))
  /\ UNCHANGED <<newArgs, c, call, cmds, payload, pctx, dctx, sent>>

\* line 210: the context is done while the body is read
DecodeAbort(p) ==
  /\ pc[p] = "decode"
  /\ dctx[p].err # ""
  /\ Finish(p, RetDecode(dctx[p].err))
  /\ UNCHANGED <<newArgs, c, call, cmds, payload, pctx, dctx, sent, reply>>

\* the caller cancels the context it passed; a context derived from it is
\* cancelled with it
CallerCancel(p) ==
  /\ pc[p] \in {"do", "encoded", "roundtrip", "decode"}
  /\ pctx[p].canCancel
  /\ pctx[p].err = ""
  /\ pctx' = [pctx EXCEPT ![p].err = "context.Canceled"]
  /\ dctx' = [dctx EXCEPT ![p].err =
                IF dctx[p].parent = pctx[p].id /\ @ = ""
                THEN "context.Canceled" ELSE @]
  /\ UNCHANGED <<newArgs, c, pc, call, cmds, payload, sent, reply, ret>>

\* the deadline of the derived context passes: its own, or the earlier one
\* it inherited from the caller's context
DeadlineExpire(p) ==
  /\ pc[p] \in {"roundtrip", "decode"}
  /\ dctx[p].err = ""
  /\ dctx' = [dctx EXCEPT ![p].err = "context.DeadlineExceeded"]
  /\ pctx' = [pctx EXCEPT ![p].err =
                IF ~dctx[p].own THEN "context.DeadlineExceeded" ELSE @]
  /\ UNCHANGED <<newArgs, c, pc, call, cmds, payload, sent, reply, ret>>

\* the operation returns to its caller: the call's values are dropped
Return(p) ==
  /\ pc[p] = "done"
  /\ pc' = [pc EXCEPT ![p] = "idle"]
  /\ call' = [call EXCEPT ![p] = NoCall]
  /\ cmds' = [cmds EXCEPT ![CmdAddr(p)] = flaresolverrCommand]
  /\ payload' = [payload EXCEPT ![p] = <<>>]
  /\ pctx' = [pctx EXCEPT ![p] = Background]
  /\ dctx' = [dctx EXCEPT ![p] = NoContext]
  /\ sent' = [sent EXCEPT ![p] = <<>>]
  /\ reply' = [reply EXCEPT ![p] = NoReply]
  /\ ret' = [ret EXCEPT ![p] = NoReturn]
  /\ UNCHANGED <<newArgs, c>>

\* ---------------------------------------------------------- specifications

\* one caller, every input
Next ==
  \E p \in {1} :
    \/ CreateSession(p, Inputs)
    \/ ListSessions(p, Inputs)
    \/ DestroySession(p, Inputs)
    \/ Get(p, Inputs)
    \/ Post(p, Inputs)
    \/ DoEncode(p)
    \/ DoRequest(p)
    \/ TransportFail(p)
    \/ RoundTripAbort(p)
    \/ ReceiveHeaders(p, Inputs)
    \/ DecodeBody(p, Inputs)
    \/ DecodeAbort(p)
    \/ CallerCancel(p)
    \/ DeadlineExpire(p)
    \/ Return(p)

Spec == Init /\ [][Next]_vars

\* NumCallers callers at once, few inputs, contexts that are never done
InitConcurrent == InitWith({0}, {"http://127.0.0.1:8191/v1"}, {"nil"})

NextConcurrent ==
  \E p \in Callers :
    \/ CreateSession(p, SmallInputs)
    \/ ListSessions(p, SmallInputs)
    \/ DestroySession(p, SmallInputs)
    \/ Get(p, SmallInputs)
    \/ Post(p, SmallInputs)
    \/ DoEncode(p)
    \/ DoRequest(p)
    \/ ReceiveHeaders(p, SmallInputs)
    \/ DecodeBody(p, SmallInputs)
    \/ Return(p)

SpecConcurrent == InitConcurrent /\ [][NextConcurrent]_vars

\* ------------------------------------------------------------------ claims

\* two code points that are the same letter of ASCII in either case
EqualFold(a, b) ==
  \/ a = b
  \/ a \in 65..90 /\ b = a + 32
  \/ b \in 65..90 /\ a = b + 32

\* s holds substr somewhere, letters compared without regard to case
ContainsFold(s, substr) ==
  \E i \in 0..(Len(s) - Len(substr)) :
    \A j \in 1..Len(substr) : EqualFold(s[i + j], substr[j])

\* caller p's call has read and decoded a reply with an HTTP status other
\* than 200
DecodedNon200(p) ==
  /\ pc[p] = "done"
  /\ reply[p].got = "body"
  /\ reply[p].code # StatusOK
  /\ reply[p].body.json

MessageOf(body) ==
  IF "message" \in DOMAIN body.fields THEN body.fields.message ELSE EmptyString

\* C1: a reply with an HTTP status other than 200 whose body decodes with
\* message m makes the call return ErrRequestTimeout exactly when m holds
\* "maximum timeout reached" in any letter case, and otherwise an error that
\* matches ErrUnexpectedError and carries m as it was received.
ClaimC1 ==
  \A p \in Callers :
    DecodedNon200(p) =>
      LET m == MessageOf(reply[p].body)
          err == CallResult(call[p].op, ret[p]).err
      IN /\ (err = ErrRequestTimeout) <=> ContainsFold(m, MaximumTimeoutReached)
         /\ ~ContainsFold(m, MaximumTimeoutReached) =>
              /\ ErrorsIs(err, ErrUnexpectedError)
              /\ ~ErrorsIs(err, ErrRequestTimeout)
              /\ err.detail = m

\* a DestroySession call got status 500 with "MAXIMUM TIMEOUT REACHED" and
\* returned ErrRequestTimeout
WitnessC1 ==
  /\ DecodedNon200(1)
  /\ call[1].op = CommandSessionsdestroy
  /\ MessageOf(reply[1].body) = MsgTimeoutUpperCase
  /\ ret[1].err = ErrRequestTimeout

\* C2: whenever do has returned, it returned either a decoded Response and
\* a nil error, or a nil Response and an error; never both, never neither.
ClaimC2 ==
  \A p \in Callers :
    pc[p] = "done" =>
      \/ ~ret[p].resp.nil /\ ret[p].err = NoError
      \/ ret[p].resp = NilResponse /\ ret[p].err # NoError

\* do returned after a decoded reply with status 500
WitnessC2 ==
  /\ DecodedNon200(1)
  /\ ret[1].resp = NilResponse
  /\ ret[1].err # NoError

\* the error is one handleError makes
Classified(err) == err = ErrRequestTimeout \/ ErrorsIs(err, ErrUnexpectedError)

\* a reply with status 200 and a decodable body is returned as it was
\* decoded, with no error, whatever its status and message fields say
Status200Returned(p) ==
  (reply[p].code = StatusOK /\ reply[p].body.json) =>
    /\ ret[p].err = NoError
    /\ ~ret[p].resp.nil
    /\ ret[p].resp.message = MessageOf(reply[p].body)
    /\ ret[p].resp.status =
         IF "status" \in DOMAIN reply[p].body.fields
         THEN reply[p].body.fields.status ELSE ""

\* C3 as stated: when a call has read a reply, status 200 with a decodable
\* body gives the Response and no error, and every other status gives no
\* Response and the error its message classifies into.
ClaimC3Original ==
  \A p \in Callers :
    (pc[p] = "done" /\ reply[p].got = "body") =>
      /\ Status200Returned(p)
      /\ reply[p].code # StatusOK =>
           /\ ret[p].resp = NilResponse
           /\ Classified(ret[p].err)

\* C3, amended: status 200 with a decodable body gives the Response and no
\* error; every other status with a decodable body gives no Response and
\* the error its message classifies into; a body that does not decode gives
\* no Response and the unclassified decoding error, at either status.
ClaimC3 ==
  \A p \in Callers :
    (pc[p] = "done" /\ reply[p].got = "body") =>
      /\ Status200Returned(p)
      /\ (reply[p].code # StatusOK /\ reply[p].body.json) =>
           /\ ret[p].resp = NilResponse
           /\ ret[p].err = handleError([message |-> MessageOf(reply[p].body)])
           /\ Classified(ret[p].err)
      /\ ~reply[p].body.json =>
           /\ ret[p].resp = NilResponse
           /\ ret[p].err.prefix = "cannot read flaresolverr response"
           /\ ~Classified(ret[p].err)

\* a reply with status 200 whose body says status "error" and "maximum
\* timeout reached" was returned as a Response with no error
WitnessC3 ==
  /\ pc[1] = "done"
  /\ reply[1].got = "body"
  /\ reply[1].code = StatusOK
  /\ reply[1].body = JSONBody([status |-> "error", message |-> MaximumTimeoutReached])
  /\ ret[1].err = NoError
  /\ ret[1].resp.message = MaximumTimeoutReached

\* ms is the duration d in whole milliseconds, the fraction dropped
WholeMilliseconds(ms, d) ==
  /\ (d >= 0) => (ms >= 0 /\ ms * Millisecond <= d /\ d < (ms + 1) * Millisecond)
  /\ (d < 0) => (ms <= 0 /\ ms * Millisecond >= d /\ d > (ms - 1) * Millisecond)

\* C4: the maxTimeout of every command handed to the HTTP client, and of
\* the command value once do has set it, is the client's timeout in whole
\* milliseconds, whatever the operation.
ClaimC4 ==
  \A p \in Callers :
    /\ pc[p] \in {"encoded", "roundtrip", "decode", "done"} =>
         WholeMilliseconds(cmds[CmdAddr(p)].MaxTimeout, c.timeout)
    /\ \A i \in 1..Len(payload[p]) :
         WholeMilliseconds(payload[p][i].maxTimeout, c.timeout)
    /\ \A i \in 1..Len(sent[p]) :
         WholeMilliseconds(sent[p][i].body.maxTimeout, c.timeout)

\* a Post was sent by a client built with a timeout of -1.5 ms: maxTimeout -1
WitnessC4 ==
  /\ call[1].op = CommandRequestpost
  /\ newArgs.timeout = -1500
  /\ Len(sent[1]) = 1
  /\ sent[1][1].body.maxTimeout = -1

\* the value of one hexadecimal digit
HexValue(ch) == IF ch \in 48..57 THEN ch - 48 ELSE ch - 87

\* where the two digits of byte k start in the 36-character form
HexOffset(k) ==
  2 * k - 1 + (IF k > 4 THEN 1 ELSE 0) + (IF k > 6 THEN 1 ELSE 0)
            + (IF k > 8 THEN 1 ELSE 0) + (IF k > 10 THEN 1 ELSE 0)

\* s is the canonical 36-character lowercase-hyphenated form of identifier u
Canonical36(s, u) ==
  /\ Len(s) = 36
  /\ \A i \in {9, 14, 19, 24} : s[i] = 45
  /\ \A i \in (1..36) \ {9, 14, 19, 24} : s[i] \in (48..57) \cup (97..102)
  /\ \A k \in 1..16 :
       16 * HexValue(s[HexOffset(k)]) + HexValue(s[HexOffset(k) + 1]) = u[k]

\* C5: the session field of the command of every call is empty exactly when
\* the identifier passed is uuid.Nil (ListSessions passes none), is the
\* canonical 36-character form of the identifier otherwise, and is on the wire
\* exactly when it is not empty.
ClaimC5 ==
  \A p \in Callers :
    pc[p] # "idle" =>
      LET s == cmds[CmdAddr(p)].Session
          u == call[p].session
      IN /\ (s = EmptyString) <=> (u = UUIDNil)
         /\ (u # UUIDNil) => Canonical36(s, u)
         /\ (handleSession(u) = EmptyString) <=> (u = UUIDNil)
         /\ \A i \in 1..Len(sent[p]) :
              IF u = UUIDNil
              THEN "session" \notin DOMAIN sent[p][i].body
              ELSE /\ "session" \in DOMAIN sent[p][i].body
                   /\ Canonical36(sent[p][i].body.session, u)

\* "47d0a203-a007-4a01-b8c1-0cf0156c3cc7"
TestUUIDString ==
  <<52, 55, 100, 48, 97, 50, 48, 51, 45, 97, 48, 48, 55, 45, 52, 97, 48, 49, 45,
    98, 56, 99, 49, 45, 48, 99, 102, 48, 49, 53, 54, 99, 51, 99, 99, 55>>

\* a CreateSession with the test's identifier sent its 36-character form
WitnessC5 ==
  /\ call[1].op = CommandSessionscreate
  /\ call[1].session = TestUUID
  /\ Len(sent[1]) = 1
  /\ sent[1][1].body.session = TestUUIDString

\* C6: the client New made has a timeout of 60,000 ms when New was given
\* zero and the timeout New was given otherwise, and the base URL New was
\* given.
ClaimC6 ==
  /\ newArgs.timeout = 0 => c.timeout = 60000 * Millisecond
  /\ newArgs.timeout # 0 => c.timeout = newArgs.timeout
  /\ c.baseURL = newArgs.baseURL

\* a client built with a zero timeout sent a command with maxTimeout 60000
WitnessC6 ==
  /\ newArgs.timeout = 0
  /\ c.timeout = 60000 * Millisecond
  /\ Len(sent[1]) = 1
  /\ sent[1][1].body.maxTimeout = 60000

\* the command the operation of a call builds from the call's own arguments
OwnCommand(in) ==
  CASE in.op = CommandSessionscreate -> CreateSessionCommand(in.session, in.proxy)
    [] in.op = CommandSessionslist -> ListSessionsCommand
    [] in.op = CommandSessionsdestroy -> DestroySessionCommand(in.session)
    [] in.op = CommandRequestget -> GetCommand(in.u, in.session, in.proxy)
    [] in.op = CommandRequestpost -> PostCommand(in.u, in.session, in.data, in.proxy)

\* what a call that runs alone puts on the wire
AloneOnWire(in) == Encode(SetMaxTimeout(c, OwnCommand(in)))

\* every command encoded or sent is the one its call would send alone
SendsOwnCommand ==
  \A p \in Callers :
    /\ \A i \in 1..Len(payload[p]) : payload[p][i] = AloneOnWire(call[p])
    /\ \A i \in 1..Len(sent[p]) :
         /\ sent[p][i].body = AloneOnWire(call[p])
         /\ sent[p][i].url = newArgs.baseURL
         /\ sent[p][i].body.cmd = call[p].op
         /\ sent[p][i].body.url = call[p].u

\* C7: under every interleaving of concurrent calls no step changes the
\* client's fields, and every call encodes and sends the command it would
\* send if it ran alone.
ClaimC7 == [](SendsOwnCommand) /\ [][c' = c]_vars

\* two calls are in flight at once, with different commands
WitnessC7 ==
  /\ pc[1] = "roundtrip"
  /\ pc[2] = "roundtrip"
  /\ call[1].op = CommandRequestpost
  /\ call[2].op = CommandSessionscreate
  /\ sent[1][1].body.cmd = CommandRequestpost
  /\ sent[2][1].body.cmd = CommandSessionscreate

\* the exchange of p's call is in flight: httpClient.Do has not returned, or
\* the body is being read
InFlight(p) == pc[p] \in {"roundtrip", "decode"}

ContextErrors == {"context.Canceled", "context.DeadlineExceeded"}

\* p's call gives up: no Response, an unclassified error that wraps the
\* context's error, and no further request
Aborted(p) ==
  /\ pc'[p] = "done"
  /\ ret'[p].resp = NilResponse
  /\ ret'[p].err # NoError
  /\ ret'[p].err.wraps \in ContextErrors
  /\ ret'[p].err.prefix \in {"error making request to flaresolverr",
                             "cannot read flaresolverr response"}
  /\ ~Classified(ret'[p].err)
  /\ sent'[p] = sent[p]
  /\ reply'[p] = reply[p]

\* C8: once the caller's context is done while the exchange is in flight,
\* the call can give up at once, and the only step it takes is to give up:
\* it returns no Response and an unclassified error wrapping the context's
\* error, and reads nothing more of the reply.
ClaimC8 ==
  /\ [](\A p \in Callers :
          (InFlight(p) /\ pctx[p].err # "") =>
            ENABLED (RoundTripAbort(p) \/ DecodeAbort(p)))
  /\ [][\A p \in Callers :
          (InFlight(p) /\ pctx[p].err # "" /\ pc'[p] # pc[p]) => Aborted(p)]_vars

\* a call whose context was cancelled after the reply's headers had come
\* returned the error of the cancellation
WitnessC8 ==
  /\ pc[1] = "done"
  /\ reply[1].got = "headers"
  /\ pctx[1].err = "context.Canceled"
  /\ ret[1].resp = NilResponse
  /\ ret[1].err.wraps = "context.Canceled"

\* C9: a call hands at most one request to the HTTP client, exactly one
\* once encoding and request construction have succeeded, and none when one
\* of them failed; a call that returned an error sent no second request.
ClaimC9 ==
  \A p \in Callers :
    /\ Len(sent[p]) <= 1
    /\ pc[p] \in {"idle", "do", "encoded"} => Len(sent[p]) = 0
    /\ pc[p] \in {"roundtrip", "decode"} => Len(sent[p]) = 1
    /\ pc[p] = "done" =>
         IF ret[p].err.prefix \in {"invalid command", "cannot make request"}
         THEN Len(sent[p]) = 0
         ELSE /\ Len(sent[p]) = 1
              /\ sent[p][1].method = "POST"
              /\ sent[p][1].contentType = "application/json"

\* a call returned a transport failure after its one request
WitnessC9 ==
  /\ pc[1] = "done"
  /\ ret[1].err = RetTransport("net.OpError").err
  /\ Len(sent[1]) = 1

\* do has derived the context of p's call and handed its request to the
\* HTTP client
Exchanging(p) == dctx[p].parent # "" /\ Len(sent[p]) = 1

\* C10 as stated: whatever context the caller passed, the time to the
\* deadline of an exchange in flight is the timeout plus 10 s, and the
\* maxTimeout sent is no more than that.
ClaimC10Original ==
  \A p \in Callers :
    (Exchanging(p) /\ InFlight(p)) =>
      /\ dctx[p].remaining = c.timeout + 10 * Second
      /\ sent[p][1].body.maxTimeout * Millisecond <= dctx[p].remaining

\* the caller's context has a deadline before the timeout plus 10 s
EarlierDeadline(p) ==
  pctx[p].hasDeadline /\ pctx[p].remaining < c.timeout + 10 * Second

\* C10, amended: the time to the deadline of the exchange is the timeout
\* plus 10 s unless the caller's context has an earlier deadline, which
\* then applies; when it has none, the maxTimeout sent is no more than the
\* time the deadline allows.
ClaimC10 ==
  \A p \in Callers :
    Exchanging(p) =>
      IF EarlierDeadline(p)
      THEN dctx[p].remaining = pctx[p].remaining
      ELSE /\ dctx[p].remaining = c.timeout + 10 * Second
           /\ sent[p][1].body.maxTimeout * Millisecond <= dctx[p].remaining

\* an exchange in flight under a 60 s timeout and a context without a
\* deadline has 70 s, and its maxTimeout is 60000
WitnessC10 ==
  /\ pc[1] = "roundtrip"
  /\ ~pctx[1].hasDeadline
  /\ c.timeout = 60 * Second
  /\ dctx[1].remaining = 70 * Second
  /\ sent[1][1].body.maxTimeout = 60000

====
